---------------------------- MODULE Spec2Model ----------------------------
(***************************************************************************)
(* Model of Fechamento.py: extraction of sale transactions from the text   *)
(* of point-of-sale PDF reports, classification of the payment notes,      *)
(* the most-frequent-payment aggregate and the ordered spreadsheet rows.    *)
(*                                                                         *)
(* Text is modelled at character level: a Python str is a sequence of      *)
(* one-character strings, so that substring tests, the regular             *)
(* expressions and the number formatting are computed as the code          *)
(* computes them.                                                          *)
(***************************************************************************)
EXTENDS Integers, Sequences, FiniteSets

VARIABLES
    pc,                   \* position of the running function / main program
    observacoes,          \* argument of formatar_meio_de_pagamento
    resultado,            \* what formatar_meio_de_pagamento returned or raised
    descricoes,           \* the 'Meio de Pagamento' column given to the Aggregator
    pagamento_frequente,  \* what encontrar_pagamento_mais_frequente returned
    dados_vendas,         \* argument of criar_planilha_excel
    linhas,               \* the data rows criar_planilha_excel writes
    pasta_existe,         \* os.path.isdir(pasta_dos_pdfs)
    arquivo,              \* index of the directory entry being visited
    bloco,                \* blocks of the current file the loop has taken
    lista_de_transacoes,  \* the accumulating result list
    dados_extraidos,      \* what extrair_dados_dos_pdfs returned
    abertos,              \* directory entries handed to the document reader
    erros,                \* per-file errors caught: <<file, block>> (block 0: the reader)
    mensagem,             \* what the run printed: the set of its reports
    planilha_criada,      \* criar_planilha_excel was called
    entrada               \* the block the Parser read last in the current file

vars == <<pc, observacoes, resultado, descricoes, pagamento_frequente,
          dados_vendas, linhas, pasta_existe, arquivo, bloco,
          lista_de_transacoes, dados_extraidos, abertos, erros, mensagem,
          planilha_criada, entrada>>

(***************************************************************************)
(* Characters and Python str primitives                                    *)
(***************************************************************************)
Digitos == <<"0", "1", "2", "3", "4", "5", "6", "7", "8", "9">>

IsDigit(c) == c \in {Digitos[i] : i \in 1..10}

\* \s of the re module, over the characters the model uses
IsSpace(c) == c \in {" ", "\n"}

Maiusculas == <<"A", "B", "C", "D", "E", "F", "G", "H", "I", "J", "K", "L", "M",
                "N", "O", "P", "Q", "R", "S", "T", "U", "V", "W", "X", "Y", "Z">>

Minusculas == <<"a", "b", "c", "d", "e", "f", "g", "h", "i", "j", "k", "l", "m",
                "n", "o", "p", "q", "r", "s", "t", "u", "v", "w", "x", "y", "z">>

\* str.lower() of one character
ParaMinuscula == [c \in {Maiusculas[i] : i \in 1..26} |->
                    Minusculas[CHOOSE i \in 1..26 : Maiusculas[i] = c]]

LowerChar(c) == IF c \in DOMAIN ParaMinuscula THEN ParaMinuscula[c] ELSE c

\* str.lower()
Lower(s) == [i \in 1..Len(s) |-> LowerChar(s[i])]

\* s[i:i+len(w)] == w
OccursAt(s, i, w) ==
    /\ i >= 1
    /\ i + Len(w) - 1 <= Len(s)
    /\ \A k \in 1..Len(w) : s[i + k - 1] = w[k]

\* w in s
Contains(s, w) == \E i \in 1..(Len(s) - Len(w) + 1) : OccursAt(s, i, w)

\* str.strip(): without the leading and the trailing whitespace
Strip(s) ==
    LET keep == {i \in 1..Len(s) : ~IsSpace(s[i])}
    IN  IF keep = {} THEN <<>>
        ELSE SubSeq(s, CHOOSE i \in keep : \A j \in keep : i <= j,
                       CHOOSE i \in keep : \A j \in keep : i >= j)

\* str.replace(c, '') for a one-character c
RemoveChar(s, c) == SelectSeq(s, LAMBDA x : x # c)

\* str.replace(c, d) for one-character c and d
ReplaceChar(s, c, d) == [i \in 1..Len(s) |-> IF s[i] = c THEN d ELSE s[i]]

RECURSIVE Join(_, _)
\* sep.join(parts)
Join(parts, sep) ==
    IF Len(parts) = 0 THEN <<>>
    ELSE IF Len(parts) = 1 THEN parts[1]
    ELSE parts[1] \o sep \o Join(Tail(parts), sep)

RECURSIVE Pow10(_)
Pow10(n) == IF n = 0 THEN 1 ELSE 10 * Pow10(n - 1)

RECURSIVE DigitsValue(_)
\* the natural number a run of decimal digits denotes (0 for the empty run)
DigitsValue(ds) ==
    IF Len(ds) = 0 THEN 0
    ELSE 10 * DigitsValue(SubSeq(ds, 1, Len(ds) - 1))
         + (CHOOSE d \in 0..9 : Digitos[d + 1] = ds[Len(ds)])

RECURSIVE NatToChars(_)
\* str(n) for a natural number
NatToChars(n) ==
    IF n < 10 THEN <<Digitos[n + 1]>>
    ELSE NatToChars(n \div 10) \o <<Digitos[(n % 10) + 1]>>

(***************************************************************************)
(* float(text) and f"{value:.2f}"                                          *)
(*                                                                         *)
(* The text reaching float() holds only digits and '.'.  float() accepts   *)
(* it when it has at least one digit and at most one '.', and raises       *)
(* ValueError otherwise.  The value is kept exactly, as the digits before  *)
(* and after the point.                                                    *)
(***************************************************************************)
FloatAccepts(t) ==
    /\ \E i \in 1..Len(t) : IsDigit(t[i])
    /\ Cardinality({i \in 1..Len(t) : t[i] = "."}) <= 1

FloatValue(t) ==
    LET dots == {i \in 1..Len(t) : t[i] = "."}
        p    == IF dots = {} THEN Len(t) + 1 ELSE CHOOSE i \in dots : TRUE
    IN  [inteiro |-> SubSeq(t, 1, p - 1), fracao |-> SubSeq(t, p + 1, Len(t))]

\* The value in hundredths, rounded to nearest.  A tie is rounded to even,
\* which is what the conversion does for a tie the binary value holds
\* exactly (x.125, x.375, ...).
Centavos(v) ==
    LET d == Len(v.fracao)
        n == DigitsValue(v.inteiro \o v.fracao)
    IN  IF d <= 2 THEN n * Pow10(2 - d)
        ELSE LET q == n \div Pow10(d - 2)
                 r == n % Pow10(d - 2)
                 h == 5 * Pow10(d - 3)
             IN  IF r > h \/ (r = h /\ q % 2 = 1) THEN q + 1 ELSE q

\* f"{value:.2f}"
Format2f(v) ==
    LET c == Centavos(v)
    IN  NatToChars(c \div 100) \o <<".", Digitos[((c \div 10) % 10) + 1], Digitos[(c % 10) + 1]>>

(***************************************************************************)
(* formatar_meio_de_pagamento                                              *)
(***************************************************************************)
KwDinheiro == <<"d", "i", "n", "h", "e", "i", "r", "o">>
KwMaster == <<"m", "a", "s", "t", "e", "r">>
KwElo == <<"e", "l", "o">>
KwPix == <<"p", "i", "x">>
KwLinkDePagamento == <<"l", "i", "n", "k", " ", "d", "e", " ", "p", "a", "g", "a", "m", "e", "n", "t", "o">>
KwAReceber == <<"a", " ", "r", "e", "c", "e", "b", "e", "r">>

RotuloDinheiro == <<"D", "i", "n", "h", "e", "i", "r", "o">>
RotuloCredito == <<"C", "a", "r", "t", "ã", "o", " ", "d", "e", " ", "C", "r", "é", "d", "i", "t", "o">>
RotuloDebito == <<"C", "a", "r", "t", "ã", "o", " ", "d", "e", " ", "D", "é", "b", "i", "t", "o">>
RotuloPIX == <<"P", "I", "X">>
RotuloTransferenciaPIX == <<"T", "r", "a", "n", "s", "f", "e", "r", "ê", "n", "c", "i", "a", "/", "P", "I", "X">>
RotuloNaoEspecificado == <<"N", "ã", "o", " ", "E", "s", "p", "e", "c", "i", "f", "i", "c", "a", "d", "o">>

\* the alternation (dinheiro|master|elo|pix), in its order
Alternativas == <<KwDinheiro, KwMaster, KwElo, KwPix>>

IsAmountChar(c) == IsDigit(c) \/ c \in {".", ","}

\* the index of the first alternative that matches at position k of the
\* lower-cased text l (re.IGNORECASE), 0 when none does
AlternativaAt(l, k) ==
    IF OccursAt(l, k, Alternativas[1]) THEN 1
    ELSE IF OccursAt(l, k, Alternativas[2]) THEN 2
    ELSE IF OccursAt(l, k, Alternativas[3]) THEN 3
    ELSE IF OccursAt(l, k, Alternativas[4]) THEN 4
    ELSE 0

RECURSIVE FimEspacos(_, _)
\* a greedy \s*: the first index from i on that holds no whitespace
FimEspacos(s, i) ==
    IF i > Len(s) \/ ~IsSpace(s[i]) THEN i ELSE FimEspacos(s, i + 1)

RECURSIVE FimValor(_, _)
\* a greedy [\d.,]*: the first index from i on that holds no amount character
FimValor(s, i) ==
    IF i > Len(s) \/ ~IsAmountChar(s[i]) THEN i ELSE FimValor(s, i + 1)

RECURSIVE ProcuraTipo(_, _)
\* the lazy .*? followed by the alternation: the nearest position from k on
\* where a keyword starts, reached without crossing a newline (no
\* re.DOTALL); 0 when there is none
ProcuraTipo(l, k) ==
    IF k > Len(l) THEN 0
    ELSE IF AlternativaAt(l, k) # 0 THEN k
    ELSE IF l[k] = "\n" THEN 0
    ELSE ProcuraTipo(l, k + 1)

\* One attempt of the pattern
\*   R\$\s*([\d.,]+)\s*.*?(dinheiro|master|elo|pix)
\* at position i of s, whose lower-cased text is l.  \s* and [\d.,]+ are
\* greedy: the engine takes the whole whitespace run, the whole amount run
\* and the whole whitespace run after it, and then the nearest keyword on
\* the rest of that line.  Giving characters back never reaches another
\* keyword: a keyword starts in neither run, and what is given back is
\* then consumed by .*?, which stops at the same newline or earlier.
TentaPadrao(s, l, i) ==
    IF ~OccursAt(l, i, <<"r", "$">>) THEN [achou |-> FALSE]
    ELSE LET a == FimEspacos(s, i + 2)
             b == FimValor(s, a)
         IN  IF b = a THEN [achou |-> FALSE]
             ELSE LET k == ProcuraTipo(l, FimEspacos(s, b))
                  IN  IF k = 0 THEN [achou |-> FALSE]
                      ELSE LET n == Len(Alternativas[AlternativaAt(l, k)])
                           IN  [achou |-> TRUE,
                                valor |-> SubSeq(s, a, b - 1),
                                tipo  |-> SubSeq(s, k, k + n - 1),
                                fim   |-> k + n]

RECURSIVE FindAllFrom(_, _, _)
\* re.findall from position i on: the matches do not overlap, the search
\* goes on where the last match ended
FindAllFrom(s, l, i) ==
    IF i > Len(s) THEN <<>>
    ELSE LET m == TentaPadrao(s, l, i)
         IN  IF m.achou
             THEN <<[valor |-> m.valor, tipo |-> m.tipo]>> \o FindAllFrom(s, l, m.fim)
             ELSE FindAllFrom(s, l, i + 1)

padrao_multiplo(obs) == FindAllFrom(obs, Lower(obs), 1)

\* valor.strip().replace('.', '').replace(',', '.')
valor_formatado(valor) == ReplaceChar(RemoveChar(Strip(valor), "."), ",", ".")

\* the if/elif chain on tipo.lower()
RotuloDoTipo(tipo) ==
    IF Contains(Lower(tipo), KwDinheiro) THEN RotuloDinheiro
    ELSE IF Contains(Lower(tipo), KwMaster) THEN RotuloCredito
    ELSE IF Contains(Lower(tipo), KwElo) THEN RotuloDebito
    ELSE RotuloPIX

\* f"<Rótulo> (R$ {float(valor_formatado):.2f})"
Entrada(m) ==
    RotuloDoTipo(m.tipo) \o <<" ", "(", "R", "$", " ">>
        \o Format2f(FloatValue(valor_formatado(m.valor))) \o <<")">>

\* PagamentoUnico with the tests for 'elo' and for 'a receber' / 'pix' in
\* the other order
PagamentoUnico_PixAntesDeElo(obs) ==
    IF Contains(Lower(obs), KwLinkDePagamento) THEN RotuloCredito
    ELSE IF Contains(Lower(obs), KwAReceber) \/ Contains(Lower(obs), KwPix)
         THEN RotuloTransferenciaPIX
    ELSE IF Contains(Lower(obs), KwElo) THEN RotuloDebito
    ELSE IF Contains(Lower(obs), KwDinheiro) THEN RotuloDinheiro
    ELSE RotuloNaoEspecificado

\* the keyword rules for a note without multiple payments
PagamentoUnico(obs) ==
    IF Contains(Lower(obs), KwLinkDePagamento) THEN RotuloCredito
    ELSE IF Contains(Lower(obs), KwElo) THEN RotuloDebito
    ELSE IF Contains(Lower(obs), KwAReceber) \/ Contains(Lower(obs), KwPix)
         THEN RotuloTransferenciaPIX
    ELSE IF Contains(Lower(obs), KwDinheiro) THEN RotuloDinheiro
    ELSE RotuloNaoEspecificado

Retorna(t) == [ok |-> TRUE, texto |-> t]
ValueError == [ok |-> FALSE, texto |-> <<>>]

formatar_meio_de_pagamento(obs) ==
    LET ms == padrao_multiplo(obs)
    IN  IF \E i \in 1..Len(ms) : ~FloatAccepts(valor_formatado(ms[i].valor))
        THEN ValueError
        ELSE LET pagamentos_encontrados == [i \in 1..Len(ms) |-> Entrada(ms[i])]
             IN  IF Len(pagamentos_encontrados) > 0
                 THEN Retorna(Join(pagamentos_encontrados, <<",", " ">>))
                 ELSE Retorna(PagamentoUnico(obs))

(***************************************************************************)
(* The notes given to the Classifier: up to MaxPartes pieces of text       *)
(***************************************************************************)
MaxPartes == 3

Pedacos ==
    { <<"R", "$", " ", "5", "0", ",", "0", "0", " ", "n", "o", " ", "d", "i", "n", "h", "e", "i", "r", "o">>,
      <<"R", "$", "1", ".", "2", "3", "4", ",", "5", "6">>,
      <<"R", "$", " ", "7", ",", "5", "0", ",">>,
      <<"7">>,
      <<" ", "d", "i", "n", "h", "e", "i", "r", "o">>,
      <<"M", "a", "s", "t", "e", "r">>,
      <<"e", "l", "o">>,
      <<" ", "P", "I", "X">>,
      <<"\n">>,
      <<"l", "i", "n", "k", " ", "d", "e", " ", "p", "a", "g", "a", "m", "e", "n", "t", "o">>,
      <<"a", " ", "r", "e", "c", "e", "b", "e", "r">> }

RECURSIVE Concat(_)
Concat(ps) == IF Len(ps) = 0 THEN <<>> ELSE ps[1] \o Concat(Tail(ps))

NotasAte(max) == UNION {{Concat(ps) : ps \in [1..n -> Pedacos]} : n \in 0..max}

Notas == NotasAte(MaxPartes)

NaoUsado == <<>>

InitClassifier ==
    /\ pc = "classificar"
    /\ observacoes \in Notas
    /\ resultado = NaoUsado
    /\ descricoes = NaoUsado
    /\ pagamento_frequente = NaoUsado
    /\ dados_vendas = NaoUsado
    /\ linhas = NaoUsado
    /\ pasta_existe = TRUE
    /\ arquivo = 0
    /\ bloco = 0
    /\ lista_de_transacoes = <<>>
    /\ dados_extraidos = NaoUsado
    /\ abertos = {}
    /\ erros = {}
    /\ mensagem = {}
    /\ planilha_criada = FALSE
    /\ entrada = NaoUsado

Classificar ==
    /\ pc = "classificar"
    /\ resultado' = formatar_meio_de_pagamento(observacoes)
    /\ pc' = "classificado"
    /\ UNCHANGED <<observacoes, descricoes, pagamento_frequente, dados_vendas,
                   linhas, pasta_existe, arquivo, bloco,
                   lista_de_transacoes, dados_extraidos, abertos, erros,
                   mensagem, planilha_criada, entrada>>

NextClassifier == Classificar

SpecClassifier == InitClassifier /\ [][NextClassifier]_vars

(***************************************************************************)
(* The pattern of the multiple payments read as a description of the text  *)
(* (which positions form a mention), not as a scan.                        *)
(***************************************************************************)
PalavrasChave == {KwDinheiro, KwMaster, KwElo, KwPix}

RotuloEsperado(w) ==
    IF w = KwDinheiro THEN RotuloDinheiro
    ELSE IF w = KwMaster THEN RotuloCredito
    ELSE IF w = KwElo THEN RotuloDebito
    ELSE RotuloPIX

\* The marker is at i, the amount is s[a..b-1] (the whole run of amount
\* characters), keyword w is at k, and between the amount and the keyword
\* there is whitespace, then text of one line in which no keyword starts.
EhMencao(s, l, i, a, b, k, w) ==
    /\ OccursAt(l, i, <<"r", "$">>)
    /\ i + 2 <= a /\ a < b /\ b <= k
    /\ \A q \in (i + 2)..(a - 1) : IsSpace(s[q])
    /\ \A q \in a..(b - 1) : IsAmountChar(s[q])
    /\ ~IsAmountChar(s[b])
    /\ OccursAt(l, k, w)
    /\ \E c \in b..k : /\ \A q \in b..(c - 1) : IsSpace(s[q])
                       /\ \A q \in c..(k - 1) : s[q] # "\n"
    /\ \A q \in b..(k - 1) : \A v \in PalavrasChave : ~OccursAt(l, q, v)

Mencoes(s) ==
    LET l      == Lower(s)
        marcas == {i \in 1..Len(s) : OccursAt(l, i, <<"r", "$">>)}
        tipos  == {kw \in (1..Len(s)) \X PalavrasChave : OccursAt(l, kw[1], kw[2])}
    IN  UNION { { [i |-> i, a |-> a, b |-> b, k |-> kw[1], w |-> kw[2]] :
                    <<a, b>> \in { ab \in ((i + 2)..kw[1]) \X ((i + 2)..kw[1]) :
                                     EhMencao(s, l, i, ab[1], ab[2], kw[1], kw[2]) } } :
                <<i, kw>> \in { p \in marcas \X tipos : p[1] < p[2][1] } }

RECURSIVE Ocorrencias(_, _)
\* the non-overlapping mentions from position i on, leftmost first
Ocorrencias(M, i) ==
    LET resto == {m \in M : m.i >= i}
    IN  IF resto = {} THEN <<>>
        ELSE LET m == CHOOSE x \in resto : \A y \in resto : x.i <= y.i
             IN  <<m>> \o Ocorrencias(M, m.k + Len(m.w))

\* '<Category> (R$ <amount with two decimals>)' of a mention
EntradaEsperada(s, m) ==
    LET v == SubSeq(s, m.a, m.b - 1)
        t == ReplaceChar(RemoveChar(v, "."), ",", ".")
    IN  RotuloEsperado(m.w) \o <<" ", "(", "R", "$", " ">> \o Format2f(FloatValue(t)) \o <<")">>

EntradasEsperadas(s) ==
    LET oc == Ocorrencias(Mencoes(s), 1)
    IN  Join([n \in 1..Len(oc) |-> EntradaEsperada(s, oc[n])], <<",", " ">>)

(***************************************************************************)
(* encontrar_pagamento_mais_frequente                                      *)
(***************************************************************************)
RotuloNenhum == <<"N", "e", "n", "h", "u", "m">>

\* the character class [a-zA-Zãáçéíõú\s/]
NaClasse(c) ==
    \/ c \in DOMAIN ParaMinuscula
    \/ c \in {Minusculas[i] : i \in 1..26}
    \/ c \in {"ã", "á", "ç", "é", "í", "õ", "ú", "/"}
    \/ IsSpace(c)

RECURSIVE FimClasse(_, _)
\* a greedy [...]+: the first index from i on whose character is not of the class
FimClasse(s, i) ==
    IF i > Len(s) \/ ~NaClasse(s[i]) THEN i ELSE FimClasse(s, i + 1)

RECURSIVE TiposFrom(_, _)
\* re.findall(r'([a-zA-Zãáçéíõú\s/]+)', item): the maximal runs of the class
TiposFrom(s, i) ==
    IF i > Len(s) THEN <<>>
    ELSE IF ~NaClasse(s[i]) THEN TiposFrom(s, i + 1)
    ELSE LET j == FimClasse(s, i)
         IN  <<SubSeq(s, i, j - 1)>> \o TiposFrom(s, j)

\* tipo.strip().replace('(', '').replace(')', '').strip()
tipo_limpo(tipo) == Strip(RemoveChar(RemoveChar(Strip(tipo), "("), ")"))

\* if tipo_limpo and 'R$' not in tipo_limpo
Conta(t) == Len(t) > 0 /\ ~Contains(t, <<"R", "$">>)

\* what one item of the column adds to lista_pagamentos
PagamentosDoItem(item) ==
    LET tipos == TiposFrom(item, 1)
    IN  SelectSeq([n \in 1..Len(tipos) |-> tipo_limpo(tipos[n])], Conta)

RECURSIVE lista_pagamentos(_)
lista_pagamentos(coluna) ==
    IF Len(coluna) = 0 THEN <<>>
    ELSE PagamentosDoItem(coluna[1]) \o lista_pagamentos(Tail(coluna))

Contagem(lista, x) == Cardinality({n \in 1..Len(lista) : lista[n] = x})

\* Counter(lista).most_common(1)[0][0]: the Counter keeps the keys in the
\* order of their first occurrence and the maximum taken over it is the
\* first key that has the highest count
MostCommon(lista) ==
    LET n == CHOOSE i \in 1..Len(lista) :
                 /\ \A j \in 1..Len(lista) : Contagem(lista, lista[j]) <= Contagem(lista, lista[i])
                 /\ \A j \in 1..(i - 1) : Contagem(lista, lista[j]) < Contagem(lista, lista[i])
    IN  lista[n]

\* coluna: the values of df_vendas['Meio de Pagamento']; the frame is empty
\* when it has no row
encontrar_pagamento_mais_frequente(coluna) ==
    IF Len(coluna) = 0 THEN RotuloNenhum
    ELSE LET lista == lista_pagamentos(coluna)
         IN  IF Len(lista) = 0 THEN RotuloNenhum ELSE MostCommon(lista)

(***************************************************************************)
(* The payment descriptions given to the Aggregator: what the Classifier   *)
(* returns for the notes of up to MaxPartesDescricao pieces, and the       *)
(* composite without amounts 'Cartão de Crédito, Dinheiro'.  Each is kept  *)
(* with the categories of its entries, known from how it was made.         *)
(***************************************************************************)
MaxPartesDescricao == 2

\* 'R$ 50,00 no dinheiroR$1.234,56 PIX'
NotaDupla ==
    <<"R", "$", " ", "5", "0", ",", "0", "0", " ", "n", "o", " ", "d", "i", "n", "h", "e", "i", "r", "o",
      "R", "$", "1", ".", "2", "3", "4", ",", "5", "6", " ", "P", "I", "X">>
MaxRegistros == 3

CategoriasDaNota(nota) ==
    LET oc == Ocorrencias(Mencoes(nota), 1)
    IN  IF Len(oc) > 0 THEN [n \in 1..Len(oc) |-> RotuloEsperado(oc[n].w)]
        ELSE <<formatar_meio_de_pagamento(nota).texto>>

DescricoesPossiveis ==
    { [texto |-> formatar_meio_de_pagamento(nota).texto, categorias |-> CategoriasDaNota(nota)] :
        nota \in {x \in NotasAte(MaxPartesDescricao) \cup {NotaDupla} :
                     formatar_meio_de_pagamento(x).ok} }
    \cup { [texto |-> RotuloCredito \o <<",", " ">> \o RotuloDinheiro,
            categorias |-> <<RotuloCredito, RotuloDinheiro>>] }

Coluna(ds) == [n \in 1..Len(ds) |-> ds[n].texto]

InitAggregator ==
    /\ pc = "agregar"
    /\ descricoes \in UNION {[1..n -> DescricoesPossiveis] : n \in 0..MaxRegistros}
    /\ observacoes = NaoUsado
    /\ resultado = NaoUsado
    /\ pagamento_frequente = NaoUsado
    /\ dados_vendas = NaoUsado
    /\ linhas = NaoUsado
    /\ pasta_existe = TRUE
    /\ arquivo = 0
    /\ bloco = 0
    /\ lista_de_transacoes = <<>>
    /\ dados_extraidos = NaoUsado
    /\ abertos = {}
    /\ erros = {}
    /\ mensagem = {}
    /\ planilha_criada = FALSE
    /\ entrada = NaoUsado

Agregar ==
    /\ pc = "agregar"
    /\ pagamento_frequente' = encontrar_pagamento_mais_frequente(Coluna(descricoes))
    /\ pc' = "agregado"
    /\ UNCHANGED <<observacoes, resultado, descricoes, dados_vendas, linhas,
                   pasta_existe, arquivo, bloco, lista_de_transacoes,
                   dados_extraidos, abertos, erros, mensagem, planilha_criada,
                   entrada>>

NextAggregator == Agregar

SpecAggregator == InitAggregator /\ [][NextAggregator]_vars

(***************************************************************************)
(* criar_planilha_excel                                                    *)
(*                                                                         *)
(* A record of dados_vendas has the five columns; the order number and     *)
(* the date are the texts the Parser extracted.                            *)
(***************************************************************************)
\* pd.to_numeric of the order token
to_numeric(t) == DigitsValue(t)

DiasNoMes(mes, ano) ==
    IF mes \in {4, 6, 9, 11} THEN 30
    ELSE IF mes # 2 THEN 31
    ELSE IF (ano % 4 = 0 /\ ano % 100 # 0) \/ ano % 400 = 0 THEN 29
    ELSE 28

\* the fields of a text dd/mm/yyyy (the Parser's \d{2}/\d{2}/\d{4})
CamposDaData(t) ==
    [dia |-> DigitsValue(SubSeq(t, 1, 2)),
     mes |-> DigitsValue(SubSeq(t, 4, 5)),
     ano |-> DigitsValue(SubSeq(t, 7, 10))]

\* pd.to_datetime(..., format='%d/%m/%Y') accepts the text
DataValida(t) ==
    LET c == CamposDaData(t)
    IN  /\ c.mes \in 1..12
        /\ c.dia >= 1
        /\ c.dia <= DiasNoMes(c.mes, c.ano)

to_datetime(t) == CamposDaData(t)

DoisDigitos(n) == <<Digitos[(n \div 10) + 1], Digitos[(n % 10) + 1]>>

\* .dt.strftime('%d/%m/%Y')
strftime(d) ==
    DoisDigitos(d.dia) \o <<"/">> \o DoisDigitos(d.mes) \o <<"/">>
        \o DoisDigitos(d.ano \div 100) \o DoisDigitos(d.ano % 100)

\* the comparison of two dates as text, day first
DataAntes_ComoTexto(a, b) ==
    \/ a.dia < b.dia
    \/ a.dia = b.dia /\ a.mes < b.mes
    \/ a.dia = b.dia /\ a.mes = b.mes /\ a.ano < b.ano

\* datetime comparison: a is earlier than b
DataAntes(a, b) ==
    \/ a.ano < b.ano
    \/ a.ano = b.ano /\ a.mes < b.mes
    \/ a.ano = b.ano /\ a.mes = b.mes /\ a.dia < b.dia

\* the order of sort_values(by=['Numero do Pedido', 'Data']): row a goes
\* before row b
LinhaAntes(a, b) ==
    \/ a.numero_do_pedido < b.numero_do_pedido
    \/ a.numero_do_pedido = b.numero_do_pedido /\ DataAntes(a.data, b.data)

RECURSIVE Insere(_, _)
\* r placed in the sorted rows after every row that does not go after it
Insere(r, ordenadas) ==
    IF Len(ordenadas) = 0 THEN <<r>>
    ELSE IF LinhaAntes(r, ordenadas[1]) THEN <<r>> \o ordenadas
    ELSE <<ordenadas[1]>> \o Insere(r, Tail(ordenadas))

RECURSIVE sort_values(_)
\* rows with equal keys keep the order they came in
sort_values(df) ==
    IF Len(df) = 0 THEN <<>>
    ELSE Insere(df[Len(df)], sort_values(SubSeq(df, 1, Len(df) - 1)))

\* the frame after the two conversions of lines 114-115
Convertido(dados) ==
    [n \in 1..Len(dados) |->
        [numero_do_pedido  |-> to_numeric(dados[n].numero_do_pedido),
         data              |-> to_datetime(dados[n].data),
         nome_do_cliente   |-> dados[n].nome_do_cliente,
         valor_total       |-> dados[n].valor_total,
         meio_de_pagamento |-> dados[n].meio_de_pagamento]]

\* the sorted frame with the date formatted back, in the column order
Formatado(df) ==
    [n \in 1..Len(df) |->
        [numero_do_pedido  |-> df[n].numero_do_pedido,
         data              |-> strftime(df[n].data),
         nome_do_cliente   |-> df[n].nome_do_cliente,
         valor_total       |-> df[n].valor_total,
         meio_de_pagamento |-> df[n].meio_de_pagamento]]

\* What criar_planilha_excel writes, or the ValueError of to_datetime.  The
\* total of the month, a float sum, is not part of the model.
criar_planilha_excel(dados) ==
    IF \E n \in 1..Len(dados) : ~DataValida(dados[n].data)
    THEN [ok |-> FALSE, linhas |-> <<>>, pagamento_frequente |-> <<>>]
    ELSE LET df == Formatado(sort_values(Convertido(dados)))
         IN  [ok |-> TRUE,
              linhas |-> df,
              pagamento_frequente |->
                  encontrar_pagamento_mais_frequente([n \in 1..Len(df) |-> df[n].meio_de_pagamento])]

MaxLinhas == 3

PedidosPossiveis == { <<"0", "0", "0", "5">>, <<"0", "0", "1", "0">> }

DatasPossiveis ==
    { <<"0", "1", "/", "0", "2", "/", "2", "0", "2", "4">>,
      <<"0", "1", "/", "0", "1", "/", "2", "0", "2", "4">>,
      <<"1", "5", "/", "0", "1", "/", "2", "0", "2", "4">>,
      <<"2", "0", "/", "1", "2", "/", "2", "0", "2", "3">>,
      <<"3", "1", "/", "0", "2", "/", "2", "0", "2", "4">> }

VendasPossiveis ==
    { [numero_do_pedido  |-> p,
       data              |-> d,
       nome_do_cliente   |-> <<"M", "a", "r", "i", "a">>,
       valor_total       |-> FloatValue(<<"5", "0", ".", "0", "0">>),
       meio_de_pagamento |-> RotuloDinheiro] : p \in PedidosPossiveis, d \in DatasPossiveis }

InitPlanilha ==
    /\ pc = "criar_planilha"
    /\ dados_vendas \in UNION {[1..n -> VendasPossiveis] : n \in 1..MaxLinhas}
    /\ observacoes = NaoUsado
    /\ resultado = NaoUsado
    /\ descricoes = NaoUsado
    /\ pagamento_frequente = NaoUsado
    /\ linhas = NaoUsado
    /\ pasta_existe = TRUE
    /\ arquivo = 0
    /\ bloco = 0
    /\ lista_de_transacoes = <<>>
    /\ dados_extraidos = NaoUsado
    /\ abertos = {}
    /\ erros = {}
    /\ mensagem = {}
    /\ planilha_criada = FALSE
    /\ entrada = NaoUsado

CriarPlanilha ==
    /\ pc = "criar_planilha"
    /\ LET r == criar_planilha_excel(dados_vendas)
       IN  /\ pc' = IF r.ok THEN "planilha_gerada" ELSE "excecao"
           /\ linhas' = r.linhas
           /\ pagamento_frequente' = r.pagamento_frequente
           /\ mensagem' = IF r.ok THEN mensagem \cup {"planilha gerada"} ELSE mensagem
    /\ planilha_criada' = TRUE
    /\ UNCHANGED <<observacoes, resultado, descricoes, dados_vendas, pasta_existe,
                   arquivo, bloco, lista_de_transacoes, dados_extraidos,
                   abertos, erros, entrada>>

NextPlanilha == CriarPlanilha

SpecPlanilha == InitPlanilha /\ [][NextPlanilha]_vars

(***************************************************************************)
(* extrair_dados_dos_pdfs and the main program                             *)
(*                                                                         *)
(* The directory listing and the text of each file are inputs: each entry  *)
(* of the listing and each block of a file is drawn when the loop reaches  *)
(* it.  A block is given as what re.search finds in it: nothing, or the    *)
(* five groups.  A record keeps, beside its columns, the file and block    *)
(* it comes from (origem), which the program does not read.                *)
(***************************************************************************)
MaxArquivos == 2
MaxBlocos == 2

NomesPossiveis ==
    { <<"a", ".", "p", "d", "f">>, <<"B", ".", "P", "D", "F">>, <<"c", ".", "t", "x", "t">> }

\* nome_arquivo.lower().endswith('.pdf')
EhPdf(nome) ==
    LET l == Lower(nome)
    IN  Len(l) >= 4 /\ SubSeq(l, Len(l) - 3, Len(l)) = <<".", "p", "d", "f">>

KwAberturaDeCaixa ==
    <<"a", "b", "e", "r", "t", "u", "r", "a", " ", "d", "e", " ", "c", "a", "i", "x", "a">>

\* the test of line 87 without .lower()
EhAberturaDeCaixa_SemLower(cliente_bruto) == Contains(cliente_bruto, KwAberturaDeCaixa)

\* 'abertura de caixa' in cliente_bruto.lower()
EhAberturaDeCaixa(cliente_bruto) == Contains(Lower(cliente_bruto), KwAberturaDeCaixa)

\* group(4).strip().replace('.', '').replace(',', '.')
valor_venda_str(g4) == ReplaceChar(RemoveChar(Strip(g4), "."), ",", ".")

SemCasamento ==
    [casa |-> FALSE, pedido |-> <<>>, data |-> <<>>, cliente |-> <<>>, valor |-> <<>>, obs |-> <<>>]

Casamento(pedido, data, cliente, valor, obs) ==
    [casa |-> TRUE, pedido |-> pedido, data |-> data, cliente |-> cliente, valor |-> valor, obs |-> obs]

BlocosPossiveis ==
    { SemCasamento,
      \* 'Abertura de CAIXA', with a total that would not convert
      Casamento(<<"0", "0", "0", "1">>, <<"0", "1", "/", "0", "1", "/", "2", "0", "2", "4">>,
                <<"A", "b", "e", "r", "t", "u", "r", "a", " ", "d", "e", " ", "C", "A", "I", "X", "A">>,
                <<"1", ",", "2", ",", "3">>, <<>>),
      \* 'ABERTURA DE CAIXA 2'
      Casamento(<<"0", "0", "0", "2">>, <<"0", "1", "/", "0", "1", "/", "2", "0", "2", "4">>,
                <<"A", "B", "E", "R", "T", "U", "R", "A", " ", "D", "E", " ", "C", "A", "I", "X", "A", " ", "2">>,
                <<"0", ",", "0", "0">>, <<>>),
      \* a sale paid by PIX: ' R$ 50,00 PIX'
      Casamento(<<"0", "0", "1", "0">>, <<"0", "1", "/", "0", "2", "/", "2", "0", "2", "4">>,
                <<"M", "a", "r", "i", "a">>,
                <<"1", ".", "2", "3", "4", ",", "5", "6">>,
                <<" ", "R", "$", " ", "5", "0", ",", "0", "0", " ", "P", "I", "X">>),
      \* a total that does not convert
      Casamento(<<"0", "0", "1", "1">>, <<"0", "1", "/", "0", "2", "/", "2", "0", "2", "4">>,
                <<"M", "a", "r", "i", "a">>,
                <<"1", ",", "2", ",", "3">>, <<"P", "I", "X">>),
      \* a note whose amount does not convert: 'R$ 7,50, PIX'
      Casamento(<<"0", "0", "1", "2">>, <<"0", "1", "/", "0", "2", "/", "2", "0", "2", "4">>,
                <<"M", "a", "r", "i", "a">>,
                <<"7", ",", "5", "0">>,
                <<"R", "$", " ", "7", ",", "5", "0", ",", " ", "P", "I", "X">>) }

None == [nulo |-> TRUE, itens |-> <<>>]
Lista(itens) == [nulo |-> FALSE, itens |-> itens]

SemEntrada == <<>>

InitPipeline ==
    /\ pc = "inicio"
    /\ pasta_existe \in BOOLEAN
    /\ arquivo = 0
    /\ bloco = 0
    /\ lista_de_transacoes = <<>>
    /\ dados_extraidos = NaoUsado
    /\ abertos = {}
    /\ erros = {}
    /\ mensagem = {}
    /\ planilha_criada = FALSE
    /\ entrada = SemEntrada
    /\ observacoes = NaoUsado
    /\ resultado = NaoUsado
    /\ descricoes = NaoUsado
    /\ pagamento_frequente = NaoUsado
    /\ dados_vendas = NaoUsado
    /\ linhas = NaoUsado

ForaDoPipeline == <<observacoes, resultado, descricoes>>

\* lines 65-68: the directory is missing
PastaAusente ==
    /\ pc = "inicio"
    /\ ~pasta_existe
    /\ mensagem' = mensagem \cup {"pasta nao encontrada"}
    /\ dados_extraidos' = None
    /\ pc' = "retornou"
    /\ UNCHANGED <<pasta_existe, arquivo, bloco, lista_de_transacoes,
                   abertos, erros, planilha_criada, entrada, pagamento_frequente,
                   dados_vendas, linhas>>
    /\ UNCHANGED ForaDoPipeline

\* line 70: os.listdir of the directory that exists
Lista_Diretorio ==
    /\ pc = "inicio"
    /\ pasta_existe
    /\ pc' = "listando"
    /\ UNCHANGED <<pasta_existe, arquivo, bloco, lista_de_transacoes,
                   dados_extraidos, abertos, erros, mensagem, planilha_criada,
                   entrada, pagamento_frequente, dados_vendas, linhas>>
    /\ UNCHANGED ForaDoPipeline

\* line 71: an entry that is no .pdf is passed over
IgnoraArquivo(nome) ==
    /\ pc = "listando"
    /\ arquivo < MaxArquivos
    /\ ~EhPdf(nome)
    /\ arquivo' = arquivo + 1
    /\ UNCHANGED <<pc, pasta_existe, bloco, lista_de_transacoes,
                   dados_extraidos, abertos, erros, mensagem, planilha_criada,
                   entrada, pagamento_frequente, dados_vendas, linhas>>
    /\ UNCHANGED ForaDoPipeline

\* the except clause of lines 101-102: where the run goes on and what is
\* left of the list; the error escalated
ExceptHandler_Propaga(lista, arq) == [pc |-> "excecao", lista |-> lista]

\* the except clause dropping what the file had added
ExceptHandler_Desfaz(lista, arq) ==
    [pc |-> "listando", lista |-> SelectSeq(lista, LAMBDA r : r.origem[1] # arq)]

\* the except clause of lines 101-102: the error is printed, the loop over
\* the directory goes on, the list is not touched
ExceptHandler(lista, arq) == [pc |-> "listando", lista |-> lista]

\* lines 76-78: the document reader raises
LeitorFalha(nome) ==
    /\ pc = "listando"
    /\ arquivo < MaxArquivos
    /\ EhPdf(nome)
    /\ arquivo' = arquivo + 1
    /\ abertos' = abertos \cup {arquivo + 1}
    /\ erros' = erros \cup {<<arquivo + 1, 0>>}
    /\ LET h == ExceptHandler(lista_de_transacoes, arquivo + 1)
       IN  pc' = h.pc /\ lista_de_transacoes' = h.lista
    /\ UNCHANGED <<pasta_existe, bloco, dados_extraidos, mensagem,
                   planilha_criada, entrada, pagamento_frequente, dados_vendas, linhas>>
    /\ UNCHANGED ForaDoPipeline

\* lines 76-78: the text is read and split in blocks
AbreArquivo(nome) ==
    /\ pc = "listando"
    /\ arquivo < MaxArquivos
    /\ EhPdf(nome)
    /\ arquivo' = arquivo + 1
    /\ abertos' = abertos \cup {arquivo + 1}
    /\ bloco' = 0
    /\ entrada' = SemEntrada
    /\ pc' = "blocos"
    /\ UNCHANGED <<pasta_existe, lista_de_transacoes, dados_extraidos, erros,
                   mensagem, planilha_criada, pagamento_frequente, dados_vendas, linhas>>
    /\ UNCHANGED ForaDoPipeline

\* lines 80-100 for one block b.  The position in the blocks is kept while
\* the loop over them runs: an error leaves the loop
ProcessaBloco(b) ==
    /\ pc = "blocos"
    /\ bloco < MaxBlocos
    /\ entrada' = b
    /\ LET cliente_bruto == Strip(b.cliente)
           observacoes_  == Strip(b.obs)
           pagamento     == formatar_meio_de_pagamento(observacoes_)
       IN  IF ~b.casa \/ EhAberturaDeCaixa(cliente_bruto)
           THEN /\ bloco' = bloco + 1
                /\ UNCHANGED <<pc, lista_de_transacoes, erros>>
           ELSE IF ~FloatAccepts(valor_venda_str(b.valor)) \/ ~pagamento.ok
           THEN /\ erros' = erros \cup {<<arquivo, bloco + 1>>}
                /\ LET h == ExceptHandler(lista_de_transacoes, arquivo)
                   IN  pc' = h.pc /\ lista_de_transacoes' = h.lista
                /\ bloco' = 0
           ELSE /\ lista_de_transacoes' = Append(lista_de_transacoes,
                        [numero_do_pedido  |-> Strip(b.pedido),
                         data              |-> Strip(b.data),
                         nome_do_cliente   |-> cliente_bruto,
                         valor_total       |-> FloatValue(valor_venda_str(b.valor)),
                         meio_de_pagamento |-> pagamento.texto,
                         origem            |-> <<arquivo, bloco + 1>>])
                /\ bloco' = bloco + 1
                /\ UNCHANGED <<pc, erros>>
    /\ UNCHANGED <<pasta_existe, arquivo, dados_extraidos, abertos,
                   mensagem, planilha_criada, pagamento_frequente, dados_vendas, linhas>>
    /\ UNCHANGED ForaDoPipeline

\* the loop over the blocks ends, the file is closed; re.split gives at
\* least one block
FimDoArquivo ==
    /\ pc = "blocos"
    /\ bloco >= 1
    /\ pc' = "listando"
    /\ entrada' = SemEntrada
    /\ bloco' = 0
    /\ UNCHANGED <<pasta_existe, arquivo, lista_de_transacoes,
                   dados_extraidos, abertos, erros, mensagem, planilha_criada,
                   pagamento_frequente, dados_vendas, linhas>>
    /\ UNCHANGED ForaDoPipeline

\* line 103: the listing is exhausted
Retorna_Lista ==
    /\ pc = "listando"
    /\ dados_extraidos' = Lista(lista_de_transacoes)
    /\ pc' = "retornou"
    /\ UNCHANGED <<pasta_existe, arquivo, bloco, lista_de_transacoes,
                   abertos, erros, mensagem, planilha_criada, entrada,
                   pagamento_frequente, dados_vendas, linhas>>
    /\ UNCHANGED ForaDoPipeline

\* the if / elif / else of the main program with None taken as an empty list
Ramo_SemDistinguirNone(dados) ==
    IF ~dados.nulo /\ Len(dados.itens) > 0 THEN "criar"
    ELSE "nenhuma"

\* lines 155-161: the branch the main program takes
Ramo(dados) ==
    IF ~dados.nulo /\ Len(dados.itens) > 0 THEN "criar"
    ELSE IF dados.nulo THEN "nada"
    ELSE "nenhuma"

\* pd.DataFrame(dados_vendas)[ordem_colunas]: the five columns
Colunas(itens) ==
    [n \in 1..Len(itens) |->
        [numero_do_pedido  |-> itens[n].numero_do_pedido,
         data              |-> itens[n].data,
         nome_do_cliente   |-> itens[n].nome_do_cliente,
         valor_total       |-> itens[n].valor_total,
         meio_de_pagamento |-> itens[n].meio_de_pagamento]]

PrincipalCriaPlanilha ==
    /\ pc = "retornou"
    /\ Ramo(dados_extraidos) = "criar"
    /\ dados_vendas' = Colunas(dados_extraidos.itens)
    /\ LET r == criar_planilha_excel(Colunas(dados_extraidos.itens))
       IN  /\ pc' = IF r.ok THEN "fim" ELSE "excecao"
           /\ linhas' = r.linhas
           /\ pagamento_frequente' = r.pagamento_frequente
           /\ mensagem' = IF r.ok THEN mensagem \cup {"planilha gerada"} ELSE mensagem
    /\ planilha_criada' = TRUE
    /\ UNCHANGED <<pasta_existe, arquivo, bloco, lista_de_transacoes,
                   dados_extraidos, abertos, erros, entrada>>
    /\ UNCHANGED ForaDoPipeline

PrincipalNada ==
    /\ pc = "retornou"
    /\ Ramo(dados_extraidos) = "nada"
    /\ pc' = "fim"
    /\ UNCHANGED <<pasta_existe, arquivo, bloco, lista_de_transacoes,
                   dados_extraidos, abertos, erros, mensagem, planilha_criada,
                   entrada, pagamento_frequente, dados_vendas, linhas>>
    /\ UNCHANGED ForaDoPipeline

PrincipalNenhumaTransacao ==
    /\ pc = "retornou"
    /\ Ramo(dados_extraidos) = "nenhuma"
    /\ mensagem' = mensagem \cup {"nenhuma transacao"}
    /\ pc' = "fim"
    /\ UNCHANGED <<pasta_existe, arquivo, bloco, lista_de_transacoes,
                   dados_extraidos, abertos, erros, planilha_criada, entrada,
                   pagamento_frequente, dados_vendas, linhas>>
    /\ UNCHANGED ForaDoPipeline

NextPipeline ==
    \/ PastaAusente
    \/ Lista_Diretorio
    \/ \E nome \in NomesPossiveis : IgnoraArquivo(nome)
    \/ \E nome \in NomesPossiveis : LeitorFalha(nome)
    \/ \E nome \in NomesPossiveis : AbreArquivo(nome)
    \/ \E b \in BlocosPossiveis : ProcessaBloco(b)
    \/ FimDoArquivo
    \/ Retorna_Lista
    \/ PrincipalCriaPlanilha
    \/ PrincipalNada
    \/ PrincipalNenhumaTransacao

SpecPipeline == InitPipeline /\ [][NextPipeline]_vars

(***************************************************************************)
(* C1.  A note with two distinct tender mentions (marker R$, amount,       *)
(* filler, keyword) is classified as both entries, '<Category> (R$         *)
(* <amount, two decimals>)', joined by ', ' in the order of the text.      *)
(***************************************************************************)
C1_DuasMencoesDuasEntradas ==
    (pc = "classificado" /\ Len(Ocorrencias(Mencoes(observacoes), 1)) >= 2)
        => /\ resultado.ok
           /\ resultado.texto = EntradasEsperadas(observacoes)

\* What does hold of C1: whenever the function returns for a note with at
\* least one mention, it returns exactly the entries of the mentions, in
\* order, and nothing of the keyword rules.
Tier1_QuandoRetorna ==
    (pc = "classificado" /\ resultado.ok /\ Mencoes(observacoes) # {})
        => resultado.texto = EntradasEsperadas(observacoes)

Tier1_DuasEntradasAlcancado ==
    /\ pc = "classificado"
    /\ resultado.ok
    /\ Len(Ocorrencias(Mencoes(observacoes), 1)) = 2

(***************************************************************************)
(* C2.  Without any mention, the label is decided by the case-insensitive  *)
(* substring tests in priority order: 'link de pagamento', 'elo',          *)
(* 'a receber' or 'pix', 'dinheiro', and 'Não Especificado' when none      *)
(* occurs.                                                                 *)
(***************************************************************************)
Prioridade ==
    << [palavras |-> {KwLinkDePagamento}, rotulo |-> RotuloCredito],
       [palavras |-> {KwElo},             rotulo |-> RotuloDebito],
       [palavras |-> {KwAReceber, KwPix}, rotulo |-> RotuloTransferenciaPIX],
       [palavras |-> {KwDinheiro},        rotulo |-> RotuloDinheiro] >>

\* w occurs in s, letter case ignored
Ocorre(s, w) ==
    \E i \in 1..Len(s) :
        /\ i + Len(w) - 1 <= Len(s)
        /\ \A k \in 1..Len(w) : LowerChar(s[i + k - 1]) = w[k]

RegrasQueCasam(s) == {n \in 1..Len(Prioridade) : \E w \in Prioridade[n].palavras : Ocorre(s, w)}

C2_Tier2Prioridade ==
    (pc = "classificado" /\ Mencoes(observacoes) = {})
        => /\ resultado.ok
           /\ LET r == RegrasQueCasam(observacoes)
              IN  IF r = {} THEN resultado.texto = RotuloNaoEspecificado
                  ELSE \E n \in r : /\ \A o \in r : n <= o
                                     /\ resultado.texto = Prioridade[n].rotulo

\* a note with several of the keywords and with the marker R$ and an
\* amount, but no mention: it gets the label of the keyword of highest
\* priority
C2_Witness ==
    /\ pc = "classificado"
    /\ Mencoes(observacoes) = {}
    /\ Cardinality(RegrasQueCasam(observacoes)) >= 2
    /\ Ocorre(observacoes, <<"r", "$">>)
    /\ 1 \notin RegrasQueCasam(observacoes)
    /\ resultado.texto = RotuloDebito

(***************************************************************************)
(* C3.  formatar_meio_de_pagamento returns a description for every note,   *)
(* never an error, and the description is never empty.                     *)
(***************************************************************************)
C3_SempreRetornaNaoVazio ==
    pc = "classificado" => (resultado.ok /\ Len(resultado.texto) > 0)

(***************************************************************************)
(* C4.  encontrar_pagamento_mais_frequente returns 'Nenhum' for an empty   *)
(* record set, and otherwise the category that occurs most often among     *)
(* the entries of all the descriptions, the first one met in the scan      *)
(* when several tie.                                                       *)
(***************************************************************************)
RECURSIVE CategoriasDe(_)
\* the categories of the entries of the descriptions, records in order,
\* entries left to right
CategoriasDe(ds) ==
    IF Len(ds) = 0 THEN <<>>
    ELSE ds[1].categorias \o CategoriasDe(Tail(ds))

Vezes(lista, x) == Cardinality({n \in 1..Len(lista) : lista[n] = x})

\* x is the first of the elements of lista that occur most often
PrimeiroMaisFrequente(lista, x) ==
    \E i \in 1..Len(lista) :
        /\ lista[i] = x
        /\ \A j \in 1..Len(lista) : Vezes(lista, lista[j]) <= Vezes(lista, x)
        /\ \A j \in 1..(i - 1) : Vezes(lista, lista[j]) < Vezes(lista, x)

C4_CategoriaMaisFrequente ==
    pc = "agregado"
        => IF Len(descricoes) = 0 THEN pagamento_frequente = RotuloNenhum
           ELSE PrimeiroMaisFrequente(CategoriasDe(descricoes), pagamento_frequente)

(***************************************************************************)
(* C5.  The tokens the Aggregator counts are exactly the category labels   *)
(* of the entries of the descriptions, one per entry, so that what it      *)
(* returns for a record set that is not empty is one of the Classifier's   *)
(* labels.                                                                 *)
(***************************************************************************)
RotulosDoClassificador ==
    {RotuloDinheiro, RotuloCredito, RotuloDebito, RotuloPIX,
     RotuloTransferenciaPIX, RotuloNaoEspecificado}

C5_TokensSaoCategorias ==
    pc = "agregado"
        => /\ lista_pagamentos(Coluna(descricoes)) = CategoriasDe(descricoes)
           /\ Len(descricoes) > 0 => pagamento_frequente \in RotulosDoClassificador

(***************************************************************************)
(* C6.  An error raised while a .pdf file is processed does not leave      *)
(* extrair_dados_dos_pdfs: the loop over the directory goes on with the    *)
(* list as it was, and when the directory exists the function returns the  *)
(* list, with every record that was accumulated.                           *)
(***************************************************************************)
\* the step reports an error of a file
HouveErro == erros' # erros

C6_ErroNaoEscapa ==
    /\ (pc = "excecao" => planilha_criada)
    /\ (pc \in {"retornou", "fim"} /\ pasta_existe)
           => /\ ~dados_extraidos.nulo
              /\ dados_extraidos.itens = lista_de_transacoes

C6_DepoisDoErro ==
    /\ HouveErro => /\ pc' = "listando"
                    /\ \A r \in 1..Len(lista_de_transacoes) :
                           /\ r <= Len(lista_de_transacoes')
                           /\ lista_de_transacoes'[r] = lista_de_transacoes[r]
    /\ (erros # {} /\ pc = "listando" /\ arquivo < MaxArquivos)
           => ENABLED AbreArquivo(<<"a", ".", "p", "d", "f">>)

\* C6: no error of a file leaves the function, and after it the loop over
\* the directory goes on with the list as it was
C6_ErrosPorArquivo == []C6_ErroNaoEscapa /\ [][C6_DepoisDoErro]_vars

\* the first file failed after giving a record, the second one was read
\* and gave a record, and the list was returned with both
C6_Witness ==
    /\ pc = "retornou"
    /\ \E e \in erros : e[1] = 1
    /\ ~dados_extraidos.nulo
    /\ \E r \in 1..Len(dados_extraidos.itens) : dados_extraidos.itens[r].origem[1] = 1
    /\ \E r \in 1..Len(dados_extraidos.itens) : dados_extraidos.itens[r].origem[1] = 2

(***************************************************************************)
(* C7.  The rows criar_planilha_excel writes are the input records in      *)
(* another order: ascending by order number taken as a number, and among   *)
(* equal numbers by date taken as a calendar date.                         *)
(***************************************************************************)
\* the row is the record, with the order number as a number
MesmaVenda(linha, venda) ==
    /\ linha.numero_do_pedido = DigitsValue(venda.numero_do_pedido)
    /\ linha.data = venda.data
    /\ linha.nome_do_cliente = venda.nome_do_cliente
    /\ linha.valor_total = venda.valor_total
    /\ linha.meio_de_pagamento = venda.meio_de_pagamento

EhPermutacao(ls, vs) ==
    /\ Len(ls) = Len(vs)
    /\ \E p \in [1..Len(ls) -> 1..Len(ls)] :
           /\ \A i, j \in 1..Len(ls) : i # j => p[i] # p[j]
           /\ \A i \in 1..Len(ls) : MesmaVenda(ls[i], vs[p[i]])

\* the day of the calendar a text dd/mm/yyyy names, as yyyymmdd
DiaDoCalendario(t) ==
    DigitsValue(SubSeq(t, 7, 10)) * 10000 + DigitsValue(SubSeq(t, 4, 5)) * 100
        + DigitsValue(SubSeq(t, 1, 2))

C7_LinhasOrdenadas ==
    pc = "planilha_gerada"
        => /\ EhPermutacao(linhas, dados_vendas)
           /\ \A n \in 1..(Len(linhas) - 1) :
                  \/ linhas[n].numero_do_pedido < linhas[n + 1].numero_do_pedido
                  \/ /\ linhas[n].numero_do_pedido = linhas[n + 1].numero_do_pedido
                     /\ DiaDoCalendario(linhas[n].data) <= DiaDoCalendario(linhas[n + 1].data)

\* orders 10, 5, 10 of 01/02/2024, 01/01/2024, 15/01/2024 written as
\* (5, 01/01/2024), (10, 15/01/2024), (10, 01/02/2024)
C7_Witness ==
    /\ pc = "planilha_gerada"
    /\ Len(dados_vendas) = 3
    /\ dados_vendas[1].numero_do_pedido = <<"0", "0", "1", "0">>
    /\ dados_vendas[1].data = <<"0", "1", "/", "0", "2", "/", "2", "0", "2", "4">>
    /\ dados_vendas[2].numero_do_pedido = <<"0", "0", "0", "5">>
    /\ dados_vendas[2].data = <<"0", "1", "/", "0", "1", "/", "2", "0", "2", "4">>
    /\ dados_vendas[3].numero_do_pedido = <<"0", "0", "1", "0">>
    /\ dados_vendas[3].data = <<"1", "5", "/", "0", "1", "/", "2", "0", "2", "4">>
    /\ linhas[1].numero_do_pedido = 5
    /\ linhas[2].numero_do_pedido = 10
    /\ linhas[2].data = <<"1", "5", "/", "0", "1", "/", "2", "0", "2", "4">>
    /\ linhas[3].data = <<"0", "1", "/", "0", "2", "/", "2", "0", "2", "4">>

(***************************************************************************)
(* C8.  A block whose customer segment contains 'abertura de caixa', in    *)
(* any letter case, gives no record and the loop goes on with the next     *)
(* block of the file; no record of the list ever has such a customer.      *)
(***************************************************************************)
NomeDeAbertura(nome) ==
    \E i \in 1..Len(nome) :
        /\ i + Len(KwAberturaDeCaixa) - 1 <= Len(nome)
        /\ \A k \in 1..Len(KwAberturaDeCaixa) : LowerChar(nome[i + k - 1]) = KwAberturaDeCaixa[k]

C8_SemRegistroDeAbertura ==
    \A r \in 1..Len(lista_de_transacoes) :
        ~NomeDeAbertura(lista_de_transacoes[r].nome_do_cliente)

\* the step reads a block of that kind
LeuAbertura ==
    /\ pc = "blocos"
    /\ entrada' # SemEntrada
    /\ entrada'.casa
    /\ NomeDeAbertura(entrada'.cliente)

C8_PassoDeAbertura ==
    LeuAbertura => /\ lista_de_transacoes' = lista_de_transacoes
                   /\ erros' = erros
                   /\ pc' = "blocos"
                   /\ bloco' = bloco + 1

\* C8: no record has an 'abertura de caixa' customer, and reading such a
\* block changes nothing but the position in the blocks
C8_AberturaIgnorada == []C8_SemRegistroDeAbertura /\ [][C8_PassoDeAbertura]_vars

\* the second block of a file is an 'ABERTURA DE CAIXA' one, read after a
\* sale of the same file, and nothing has failed
C8_Witness ==
    /\ pc = "blocos"
    /\ bloco = 2
    /\ entrada # SemEntrada
    /\ entrada.casa
    /\ NomeDeAbertura(entrada.cliente)
    /\ ~Contains(entrada.cliente, KwAberturaDeCaixa)
    /\ erros = {}
    /\ \E r \in 1..Len(lista_de_transacoes) : lista_de_transacoes[r].origem = <<arquivo, 1>>

(***************************************************************************)
(* C9.  The three outcomes of a run.  Directory missing: the error is      *)
(* reported, None is returned with no file listed or opened, nothing is    *)
(* written and 'no transaction' is not printed.  Directory there and no    *)
(* record: nothing is written and 'no transaction' is printed.  And        *)
(* criar_planilha_excel is called exactly when there is a record.          *)
(***************************************************************************)
C9_TresDesfechos ==
    /\ ~pasta_existe
          => /\ pc \notin {"listando", "blocos"}
             /\ arquivo = 0
             /\ abertos = {}
             /\ ~planilha_criada
             /\ "nenhuma transacao" \notin mensagem
             /\ pc \in {"retornou", "fim"}
                   => dados_extraidos.nulo /\ "pasta nao encontrada" \in mensagem
    /\ (pc = "fim" /\ pasta_existe /\ Len(lista_de_transacoes) = 0)
          => /\ ~planilha_criada
             /\ linhas = NaoUsado
             /\ mensagem = {"nenhuma transacao"}
    /\ pc \in {"fim", "excecao"}
          => (planilha_criada <=> Len(lista_de_transacoes) >= 1)
    /\ pc \notin {"fim", "excecao"} => ~planilha_criada

\* the run that found no directory is over
C9_Witness ==
    /\ pc = "fim"
    /\ ~pasta_existe
    /\ dados_extraidos.nulo
    /\ mensagem = {"pasta nao encontrada"}

(***************************************************************************)
(* C10.  The error of block k of a file removes nothing: the records of    *)
(* its blocks before k stay in the list, no record of block k or of a      *)
(* later block of it is ever in the list, and every step leaves the list   *)
(* as it was or appends one record to it.                                  *)
(***************************************************************************)
C10_NadaDoBlocoQueFalhou ==
    \A e \in erros :
        \A r \in 1..Len(lista_de_transacoes) :
            lista_de_transacoes[r].origem[1] = e[1]
                => lista_de_transacoes[r].origem[2] < e[2]

C10_SoCresce ==
    /\ \/ lista_de_transacoes' = lista_de_transacoes
       \/ /\ Len(lista_de_transacoes') = Len(lista_de_transacoes) + 1
          /\ SubSeq(lista_de_transacoes', 1, Len(lista_de_transacoes)) = lista_de_transacoes
    /\ HouveErro => lista_de_transacoes' = lista_de_transacoes

\* C10: nothing of the block that failed or of a later one is in the list,
\* and no step removes or changes a record
C10_SemRollback == []C10_NadaDoBlocoQueFalhou /\ [][C10_SoCresce]_vars

\* the Classifier failed on the second block of the file, whose total did
\* convert, and the record of the first block is in the list
C10_Witness ==
    /\ pc = "listando"
    /\ entrada # SemEntrada
    /\ entrada.casa
    /\ FloatAccepts(valor_venda_str(entrada.valor))
    /\ ~formatar_meio_de_pagamento(Strip(entrada.obs)).ok
    /\ <<arquivo, 2>> \in erros
    /\ \E r \in 1..Len(lista_de_transacoes) : lista_de_transacoes[r].origem = <<arquivo, 1>>

=============================================================================
